---- MODULE Spec2Model ----
(***************************************************************************)
(* Model of src/graph/graph.cpp: class Graph (adjacency lists, degree      *)
(* counters, visitation bitsets, parent array) and its operations          *)
(* read_graph/add_edge, bfs, dfs, find_components, has_cycle and unvisit.  *)
(***************************************************************************)
EXTENDS Integers, Sequences, FiniteSets, TLC

\* ------------------------------------------------------------------ bounds
\* _nvertex, the constructor's first argument (graph.cpp:41).
nvertex == 3
\* Largest number of (x, y) pairs read_graph consumes.
MaxPairs == 2
\* Largest number of edges of a simple undirected graph.
MaxEdges == 3
\* Largest number of detect_directed_cycle runs on one graph (each run
\* decrements the stored indegrees, so the counters are unbounded otherwise).
MaxScans == 2
\* Largest value a degree counter holds after construction when the reserved
\* storage is not zero-filled.
MaxLeftover == 1

Vertices == 1..nvertex
\* Start values handed to bfs/dfs: 0 and nvertex + 1 are the invalid ones.
Starts == 0..(nvertex + 1)

VARIABLES
    directed,    \* _directed
    nbrs,        \* _vertex[v].neighbors, a sequence of Edge records
    indegree,    \* _vertex[v].indegree
    outdegree,   \* _vertex[v].outdegree
    parent,      \* _parent[v]
    discovered,  \* _discovered
    processed,   \* _processed
    op,          \* the public operation that ran last
    arg,         \* its argument (start vertex), 0 when it has none
    ret,         \* the value has_cycle returned last
    out,         \* vertices written to cout by the last operation, each with
                 \* the component label printed before it (0: none)
    ncomp,       \* number of "component k: " labels the last operation printed
    enq,         \* vertices pushed on do_bfs's queue by the last operation
    order,       \* vertices popped by the last detect_directed_cycle
    nadd,        \* number of add_edge calls so far
    ntopo,       \* number of detect_directed_cycle runs so far
    steps        \* the bitsets after each write the last operation made to them

vars == <<directed, nbrs, indegree, outdegree, parent, discovered, processed,
          op, arg, ret, out, ncomp, enq, order, nadd, ntopo, steps>>

graphVars == <<directed, nbrs, indegree, outdegree, nadd>>

\* ------------------------------------------------------------- traversal
\* The part of the object a traversal reads and writes, with what it prints.
Visit(d, p) ==
    [discovered |-> d, processed |-> p, out |-> <<>>, enq |-> <<>>,
     label |-> 0, ncomp |-> 0, steps |-> <<>>]

\* _discovered[v] = true
SetDiscovered(s, v) ==
    LET d == [s.discovered EXCEPT ![v] = TRUE]
    IN  [s EXCEPT !.discovered = d,
                  !.steps = Append(@, [discovered |-> d, processed |-> s.processed])]

\* _processed[v] = true
SetProcessed(s, v) ==
    LET p == [s.processed EXCEPT ![v] = TRUE]
    IN  [s EXCEPT !.processed = p,
                  !.steps = Append(@, [discovered |-> s.discovered, processed |-> p])]

Emit(s, v) == [s EXCEPT !.out = Append(@, [label |-> s.label, v |-> v])]

RECURSIVE do_dfs(_, _), do_dfs_edges(_, _, _)
do_dfs(s, v) ==
    IF s.discovered[v]
    THEN s
    ELSE LET s1 == Emit(SetDiscovered(s, v), v)
             s2 == do_dfs_edges(s1, v, 1)
         IN  SetProcessed(s2, v)
do_dfs_edges(s, v, k) ==
    IF k > Len(nbrs[v])
    THEN s
    ELSE do_dfs_edges(do_dfs(s, nbrs[v][k].to), v, k + 1)

RECURSIVE dfs_sweep(_, _)
dfs_sweep(s, i) ==
    IF i > nvertex
    THEN s
    ELSE dfs_sweep(IF ~s.processed[i] THEN do_dfs(s, i) ELSE s, i + 1)

dfs(s, v) ==
    dfs_sweep(IF v <= nvertex /\ v > 0 THEN do_dfs(s, v) ELSE s, 1)

\* do_bfs: q is the local queue, x its front, k the index of the next edge of x.
RECURSIVE do_bfs_edges(_, _, _, _), do_bfs_while(_, _)
do_bfs_edges(s, q, x, k) ==
    IF k > Len(nbrs[x])
    THEN [s |-> s, q |-> q]
    ELSE LET to == nbrs[x][k].to
         IN  IF ~s.discovered[to]
             THEN do_bfs_edges([SetDiscovered(s, to) EXCEPT !.enq = Append(@, to)],
                               Append(q, to), x, k + 1)
             ELSE do_bfs_edges(s, q, x, k + 1)
\* Mutant: the dequeued vertex is printed but never marked processed.
do_bfs_while_unmarked(s, q) ==
    IF q = <<>>
    THEN s
    ELSE LET x == Head(q)
             r == do_bfs_edges(s, q, x, 1)
         IN  do_bfs_while(Emit(r.s, x), Tail(r.q))
do_bfs_while(s, q) ==
    IF q = <<>>
    THEN s
    ELSE LET x == Head(q)
             r == do_bfs_edges(s, q, x, 1)
         IN  do_bfs_while(Emit(SetProcessed(r.s, x), x), Tail(r.q))

do_bfs(s, start) ==
    do_bfs_while(SetDiscovered([s EXCEPT !.enq = Append(@, start)], start),
                 <<start>>)

RECURSIVE bfs_sweep(_, _)
bfs_sweep(s, i) ==
    IF i > nvertex
    THEN s
    ELSE bfs_sweep(IF ~s.processed[i] THEN do_bfs(s, i) ELSE s, i + 1)

bfs(s, start) ==
    bfs_sweep(IF start > 0 /\ start <= nvertex THEN do_bfs(s, start) ELSE s, 1)

RECURSIVE find_components_loop(_, _)
find_components_loop(s, i) ==
    IF i > nvertex
    THEN s
    ELSE find_components_loop(
             IF ~s.discovered[i]
             THEN dfs([s EXCEPT !.label = s.ncomp + 1, !.ncomp = s.ncomp + 1], i)
             ELSE s,
             i + 1)

find_components(s) == find_components_loop(s, 1)

\* ------------------------------------------------------- cycle detection
AllFalse == [v \in Vertices |-> FALSE]

\* unvisit: _discovered.reset(), then _processed.reset().
unvisit(s) ==
    LET s1 == [s EXCEPT !.discovered = AllFalse,
                        !.steps = Append(@, [discovered |-> AllFalse,
                                             processed |-> s.processed])]
    IN  [s1 EXCEPT !.processed = AllFalse,
                   !.steps = Append(@, [discovered |-> AllFalse,
                                        processed |-> AllFalse])]

RECURSIVE detect_undirected_cycle(_, _), detect_undirected_edges(_, _, _)
detect_undirected_cycle(s, v) ==
    IF ~s.discovered[v]
    THEN detect_undirected_edges(SetDiscovered(s, v), v, 1)
    ELSE [s EXCEPT !.found = FALSE]
\* Mutant: any discovered neighbour counts as a cycle, the recorded parent too.
detect_undirected_edges_no_parent(s, v, k) ==
    IF k > Len(nbrs[v])
    THEN [s EXCEPT !.found = FALSE]
    ELSE LET to == nbrs[v][k].to
         IN  IF ~s.discovered[to]
             THEN LET r == detect_undirected_cycle(
                               [s EXCEPT !.parent[to] = v], to)
                  IN  IF r.found THEN r ELSE detect_undirected_edges(r, v, k + 1)
             ELSE [s EXCEPT !.found = TRUE]
detect_undirected_edges(s, v, k) ==
    IF k > Len(nbrs[v])
    THEN [s EXCEPT !.found = FALSE]
    ELSE LET to == nbrs[v][k].to
         IN  IF ~s.discovered[to]
             THEN LET r == detect_undirected_cycle(
                               [s EXCEPT !.parent[to] = v], to)
                  IN  IF r.found THEN r ELSE detect_undirected_edges(r, v, k + 1)
             ELSE IF s.parent[v] # to
                  THEN [s EXCEPT !.found = TRUE]
                  ELSE detect_undirected_edges(s, v, k + 1)

\* has_cycle's loop over the vertices of an undirected graph.
RECURSIVE has_cycle_loop(_, _)
has_cycle_loop(s, i) ==
    IF i > nvertex
    THEN s
    ELSE has_cycle_loop(
             IF ~s.discovered[i]
             THEN LET r == detect_undirected_cycle(s, i)
                  IN  [r EXCEPT !.cycle = s.cycle \/ r.found]
             ELSE s,
             i + 1)

\* What has_cycle reads and writes on an undirected graph.
Scan(d, p, par) ==
    [discovered |-> d, processed |-> p, parent |-> par, found |-> FALSE,
     cycle |-> FALSE, steps |-> <<>>]

\* has_cycle, the branch !_directed.
has_cycle_undirected(s) ==
    IF nvertex > 0 THEN has_cycle_loop(unvisit(s), 1) ELSE s

\* detect_directed_cycle: st is the local stack (top = last element).
RECURSIVE topo_seed(_, _, _), topo_edges(_, _, _), topo_while(_)
topo_seed(deg, st, i) ==
    IF i > nvertex
    THEN st
    ELSE topo_seed(deg, IF 0 = deg[i] THEN Append(st, i) ELSE st, i + 1)
topo_edges(t, v, k) ==
    IF k > Len(nbrs[v])
    THEN t
    ELSE LET to == nbrs[v][k].to
             d  == t.indegree[to] - 1
         IN  topo_edges([t EXCEPT !.indegree[to] = d,
                                  !.st = IF 0 = d THEN Append(@, to) ELSE @],
                        v, k + 1)
topo_while(t) ==
    IF t.st = <<>>
    THEN t
    ELSE LET v  == t.st[Len(t.st)]
             t1 == [t EXCEPT !.st = SubSeq(@, 1, Len(@) - 1)]
             t2 == topo_edges(t1, v, 1)
         IN  topo_while([t2 EXCEPT !.nprocessed = @ + 1,
                                   !.order = Append(@, v)])

detect_directed_cycle(deg) ==
    LET t == topo_while([indegree |-> deg, st |-> topo_seed(deg, <<>>, 1),
                         nprocessed |-> 0, order |-> <<>>])
    IN  [indegree |-> t.indegree, order |-> t.order,
         cycle |-> t.nprocessed # nvertex]

\* has_cycle, the branch _directed.
has_cycle_directed(deg) ==
    IF nvertex > 0
    THEN detect_directed_cycle(deg)
    ELSE [indegree |-> deg, order |-> <<>>, cycle |-> FALSE]

\* ------------------------------------------------------------ operations
\* Graph::Graph: reserve() leaves _vertex and _parent with size 0, so the
\* initialising loop (graph.cpp:46-49) runs zero times and the counters and
\* parents keep what the reserved storage held: zero on a fresh heap, the
\* previous owner's values on recycled storage.  A left-over parent outside
\* 1..nvertex never equals a vertex and is shown as 0.  The adjacency vectors
\* start empty and the bitsets are value-initialised.
Init ==
    /\ directed \in BOOLEAN
    /\ nbrs = [v \in Vertices |-> <<>>]
    /\ indegree \in [Vertices -> IF directed THEN 0..MaxLeftover ELSE {0}]
    /\ outdegree \in [Vertices -> IF directed THEN 0..MaxLeftover ELSE {0}]
    /\ parent \in [Vertices -> IF directed THEN {0} ELSE 0..nvertex]
    /\ discovered = AllFalse
    /\ processed = AllFalse
    /\ op = "new"
    /\ arg = 0
    /\ ret = FALSE
    /\ out = <<>>
    /\ ncomp = 0
    /\ enq = <<>>
    /\ order = <<>>
    /\ nadd = 0
    /\ ntopo = 0
    /\ steps = <<>>

\* add_edge on the graph record g = [nbrs, indegree, outdegree, nadd].
add_edge(g, x, y, weight) ==
    LET g1 == [g EXCEPT !.nbrs[x] = Append(@, [weight |-> weight, to |-> y]),
                        !.nadd = @ + 1]
    IN  IF directed
        THEN [g1 EXCEPT !.outdegree[x] = @ + 1, !.indegree[y] = @ + 1]
        ELSE g1

\* One round of read_graph's loop for the pair (x, y).
read_graph_pair(g, x, y) ==
    LET g1 == add_edge(g, x, y, 0)
    IN  IF ~directed THEN add_edge(g1, y, x, 0) ELSE g1

Observe(name, a) ==
    /\ op' = name
    /\ arg' = a

\* There is an edge record from u to v.
Arc(u, v) == \E k \in 1..Len(nbrs[u]) : nbrs[u][k].to = v

ReadPair(x, y) ==
    /\ LET g == read_graph_pair([nbrs |-> nbrs, indegree |-> indegree,
                                 outdegree |-> outdegree, nadd |-> nadd], x, y)
       IN  /\ nbrs' = g.nbrs
           /\ indegree' = g.indegree
           /\ outdegree' = g.outdegree
           /\ nadd' = g.nadd
    /\ Observe("read_graph", 0)
    /\ out' = <<>> /\ ncomp' = 0 /\ enq' = <<>> /\ steps' = <<>>
    /\ ret' = FALSE /\ order' = <<>>
    /\ UNCHANGED <<directed, parent, discovered, processed, ntopo>>

\* read_graph consuming any pair of vertices.
ReadGraph(x, y) ==
    /\ nadd < (IF directed THEN 1 ELSE 2) * MaxPairs
    /\ ReadPair(x, y)

\* read_graph consuming a pair that keeps an undirected graph simple.
ReadEdge(x, y) ==
    /\ ~directed
    /\ nadd < 2 * MaxEdges
    /\ x # y
    /\ ~Arc(x, y)
    /\ ReadPair(x, y)

Traverse(name, a, s) ==
    /\ discovered' = s.discovered
    /\ processed' = s.processed
    /\ out' = s.out
    /\ ncomp' = s.ncomp
    /\ enq' = s.enq
    /\ steps' = s.steps
    /\ Observe(name, a)
    /\ ret' = FALSE /\ order' = <<>>
    /\ UNCHANGED <<graphVars, parent, ntopo>>

Bfs(start) == Traverse("bfs", start, bfs(Visit(discovered, processed), start))

Dfs(v) == Traverse("dfs", v, dfs(Visit(discovered, processed), v))

FindComponents ==
    Traverse("find_components", 0, find_components(Visit(discovered, processed)))

Unvisit ==
    /\ LET s == unvisit(Visit(discovered, processed))
       IN  /\ discovered' = s.discovered
           /\ processed' = s.processed
           /\ steps' = s.steps
    /\ out' = <<>> /\ ncomp' = 0 /\ enq' = <<>>
    /\ Observe("unvisit", 0)
    /\ ret' = FALSE /\ order' = <<>>
    /\ UNCHANGED <<graphVars, parent, ntopo>>

HasCycleUndirected ==
    /\ ~directed
    /\ LET s == has_cycle_undirected(Scan(discovered, processed, parent))
       IN  /\ discovered' = s.discovered
           /\ processed' = s.processed
           /\ parent' = s.parent
           /\ ret' = s.cycle
           /\ steps' = s.steps
    /\ out' = <<>> /\ ncomp' = 0 /\ enq' = <<>>
    /\ Observe("has_cycle", 0)
    /\ order' = <<>>
    /\ UNCHANGED <<graphVars, ntopo>>

HasCycleDirected ==
    /\ directed
    /\ ntopo < MaxScans
    /\ LET t == has_cycle_directed(indegree)
       IN  /\ indegree' = t.indegree
           /\ order' = t.order
           /\ ret' = t.cycle
    /\ ntopo' = ntopo + 1
    /\ LET s == IF nvertex > 0
                THEN unvisit(Visit(discovered, processed))
                ELSE Visit(discovered, processed)
       IN  /\ discovered' = s.discovered
           /\ processed' = s.processed
           /\ steps' = s.steps
    /\ out' = <<>> /\ ncomp' = 0 /\ enq' = <<>>
    /\ Observe("has_cycle", 0)
    /\ UNCHANGED <<directed, nbrs, outdegree, nadd, parent>>

Next ==
    \/ \E x \in Vertices, y \in Vertices : ReadGraph(x, y)
    \/ \E start \in Starts : Bfs(start)
    \/ \E v \in Starts : Dfs(v)
    \/ FindComponents
    \/ Unvisit
    \/ HasCycleUndirected
    \/ HasCycleDirected

\* Building a directed graph and running detect_directed_cycle on it.
NextDirected ==
    \/ \E x \in Vertices, y \in Vertices : ReadGraph(x, y)
    \/ HasCycleDirected

\* Building a simple undirected graph and running detect_undirected_cycle on
\* it.
NextUndirected ==
    \/ \E x \in Vertices, y \in Vertices : ReadEdge(x, y)
    \/ HasCycleUndirected

\* The reserved storage came zero-filled (the first allocations of a process,
\* as in main()).
InitFresh ==
    /\ Init
    /\ indegree = [v \in Vertices |-> 0]
    /\ outdegree = [v \in Vertices |-> 0]
    /\ parent = [v \in Vertices |-> 0]

\* Every operation, on zero-filled storage.
Spec == InitFresh /\ [][Next]_vars

InitDirected == Init /\ directed

InitUndirected == Init /\ ~directed

\* Directed graphs on storage with left-over degree counters.
SpecRecycled == InitDirected /\ [][NextDirected]_vars

\* Simple undirected graphs on storage with left-over parents.
SpecUndirected == InitUndirected /\ [][NextUndirected]_vars

\* ------------------------------------------------- graph-theoretic terms
\* The vertices reachable from the set S along edge records.
RECURSIVE ReachFrom(_)
ReachFrom(S) ==
    LET T == S \cup {v \in Vertices : \E u \in S : Arc(u, v)}
    IN  IF T = S THEN S ELSE ReachFrom(T)

DirectedCycle == \E u \in Vertices, v \in Vertices : Arc(u, v) /\ u \in ReachFrom({v})

\* The vertices reachable from S without crossing the edge {a, b}.
RECURSIVE ReachAvoiding(_, _, _)
ReachAvoiding(S, a, b) ==
    LET T == S \cup {v \in Vertices : \E u \in S :
                        Arc(u, v) /\ {u, v} # {a, b}}
    IN  IF T = S THEN S ELSE ReachAvoiding(T, a, b)

\* In a simple undirected graph: some edge closes a path between its ends.
UndirectedCycle ==
    \E u \in Vertices, v \in Vertices : Arc(u, v) /\ v \in ReachAvoiding({u}, u, v)

\* Every edge record has its mirror image, as read_graph inserts them.
Symmetric == \A u \in Vertices, v \in Vertices : Arc(u, v) => Arc(v, u)

\* No self-loop and no two edge records between the same pair.
Simple ==
    \A u \in Vertices :
        \A k \in 1..Len(nbrs[u]) :
            /\ nbrs[u][k].to # u
            /\ \A j \in 1..Len(nbrs[u]) : nbrs[u][j].to = nbrs[u][k].to => j = k

Clean == discovered = AllFalse /\ processed = AllFalse

\* Positions of v in what the last operation printed.
Emitted(v) == {i \in 1..Len(out) : out[i].v = v}

EachVertexEmittedOnce == \A v \in Vertices : Cardinality(Emitted(v)) = 1

\* The vertices printed under component label l.
Members(l) == {out[i].v : i \in {j \in 1..Len(out) : out[j].label = l}}

NoDuplicates(q) == \A i \in 1..Len(q), j \in 1..Len(q) : q[i] = q[j] => i = j

SumOver(f) ==
    LET RECURSIVE Sum(_)
        Sum(i) == IF i = 0 THEN 0 ELSE f[i] + Sum(i - 1)
    IN  Sum(nvertex)

\* ---------------------------------------------------------------- claims
\* C1: two consecutive has_cycle() calls on a directed graph, with no add_edge
\* in between, return the same boolean.
C1_RepeatedHasCycleAgrees ==
    [][(directed /\ op = "has_cycle" /\ op' = "has_cycle") => ret' = ret]_vars

\* C2: on a directed graph has_cycle() returns true exactly when the graph
\* built by the add_edge calls contains a directed cycle.
C2_DirectedCycleIff ==
    (directed /\ op = "has_cycle") => (ret <=> DirectedCycle)

\* C2, first call only: the same, for the first has_cycle() on the graph.  It
\* fails under SpecRecycled, where the indegrees start from left-over values.
C2_FirstCallDirectedCycleIff ==
    (directed /\ op = "has_cycle" /\ ntopo = 1) => (ret <=> DirectedCycle)

\* C3: on a symmetric undirected graph, find_components() started from a reset
\* visitation state prints one label per connected component, and under each
\* label exactly the vertices reachable from the first vertex printed there.
C3_ComponentsRight ==
    /\ ncomp = Cardinality({ReachFrom({v}) : v \in Vertices})
    /\ \A l \in 1..ncomp :
          \E i \in 1..Len(out) :
              /\ out[i].label = l
              /\ \A j \in 1..(i - 1) : out[j].label # l
              /\ Members(l) = ReachFrom({out[i].v})
C3_OneLabelPerComponent ==
    [][(~directed /\ Symmetric /\ Clean /\ op' = "find_components")
          => C3_ComponentsRight']_vars

\* C4: a second bfs(start), or a second dfs(start), with no unvisit() in
\* between discovers no new vertex and prints no vertex.
C4_SecondRunSilent ==
    [][(op \in {"bfs", "dfs"} /\ op' = op /\ arg' = arg)
          => (out' = <<>> /\ discovered' = discovered)]_vars

\* C5: whenever has_cycle() returns false on a directed graph, the order in
\* which the vertices were popped holds every vertex once and puts u before v
\* for every edge (u, v).
C5_TopologicalOrder ==
    (directed /\ op = "has_cycle" /\ ~ret) =>
        /\ Len(order) = nvertex
        /\ \A v \in Vertices : \E i \in 1..Len(order) : order[i] = v
        /\ \A i \in 1..Len(order), j \in 1..Len(order) :
              Arc(order[i], order[j]) => i < j

\* C6: on a simple undirected graph with symmetric edges, every has_cycle()
\* call returns true exactly when the graph contains a cycle.
C6_UndirectedCycleIff ==
    (~directed /\ op = "has_cycle" /\ Simple /\ Symmetric)
        => (ret <=> UndirectedCycle)

\* C6 witness: a second or later scan (parents left by an earlier one) of a
\* triangle, reported as a cycle.
C6_Witness ==
    /\ ~directed /\ op = "has_cycle" /\ Simple /\ Symmetric
    /\ nadd = 2 * MaxEdges /\ ret /\ UndirectedCycle
    /\ \A v \in Vertices : parent[v] \in Vertices

\* C7: find_components(), whatever ran before it, prints every vertex under
\* exactly one component label.
C7_ComponentsCoverAll ==
    op = "find_components" => EachVertexEmittedOnce

\* C8: from a reset visitation state, bfs(start) and dfs(start) each print
\* every vertex exactly once for every start value, push no vertex twice, and
\* leave every vertex discovered and processed.
C8_TraversalVisitsEachOnce ==
    [][(Clean /\ op' \in {"bfs", "dfs"})
          => /\ EachVertexEmittedOnce'
             /\ Len(out') = nvertex
             /\ NoDuplicates(enq')
             /\ \A v \in Vertices : discovered'[v] /\ processed'[v]]_vars

\* C8 witness: a bfs from vertex 1 over a vertex with two inbound edges
\* (1 -> 3, 2 -> 3) that printed and pushed every vertex.
C8_Witness ==
    /\ op = "bfs" /\ arg = 1 /\ directed
    /\ Arc(1, 3) /\ Arc(2, 3)
    /\ Len(out) = nvertex /\ Len(enq) = nvertex

\* C9: on a directed graph the outdegrees and the indegrees each add up to
\* the number of add_edge calls, in every reachable state.
C9_DegreeSums ==
    directed => (SumOver(outdegree) = nadd /\ SumOver(indegree) = nadd)

\* C10: processed[v] implies discovered[v] after every write an operation
\* makes to the bitsets and between operations; right after construction or
\* unvisit() both bitsets are empty.
C10_ProcessedImpliesDiscovered ==
    /\ \A v \in Vertices : processed[v] => discovered[v]
    /\ \A i \in 1..Len(steps) :
          \A v \in Vertices : steps[i].processed[v] => steps[i].discovered[v]
    /\ op \in {"new", "unvisit"} => Clean

\* C10 between operations only: the implication in the state each operation
\* leaves, and both bitsets empty right after construction or unvisit().  It
\* holds under Spec.
C10_BetweenOperations ==
    /\ \A v \in Vertices : processed[v] => discovered[v]
    /\ op \in {"new", "unvisit"} => Clean

====
